---------------------------- MODULE Spec2Model ----------------------------
(***************************************************************************)
(* A model of code2md.py: the ignore-file parser, the file collector, the  *)
(* interactive selector, the language mapper, the table-of-contents        *)
(* generator and the run of combine_files_to_markdown.                     *)
(*                                                                         *)
(* Python strings are sequences of one-character strings, so that          *)
(* stripping, lower-casing, splitting, replacing and glob matching are     *)
(* computed character by character as the code computes them.              *)
(***************************************************************************)
EXTENDS Integers, Sequences, FiniteSets, TLC

VARIABLES
    tree,              \* the files under the working directory, in listing order
    gitignore_text,    \* the raw lines of ./.gitignore (read when it is in tree)
    args,              \* the arguments of combine_files_to_markdown
    bad_file,          \* the one file whose read fails, and how ([rel, kind])
    pc,                \* position of the run, or of the harness of a function
    files,             \* line 201: the candidates
    files_to_include,  \* line 203: the selection
    idx,               \* index in files of the candidate being decided
    prompts,           \* number of input() calls made
    prompted,          \* the filenames input() was called with
    response,          \* the last text input() returned
    out_disk,          \* the output path on disk: "absent", "old" or "new"
    written,           \* what was written to outfile since it was opened
    widx,              \* index in files_to_include of the next section
    log,               \* the logging records
    arg,               \* harness: the argument of the function under check
    ret                \* harness: what it returned

vars == <<tree, gitignore_text, args, bad_file, pc, files, files_to_include,
          idx, prompts, prompted, response, out_disk, written, widx, log,
          arg, ret>>

runVars == <<files, files_to_include, idx, prompts, prompted, response,
             out_disk, written, widx, log>>

(***************************************************************************)
(* Bounds of the model.                                                    *)
(***************************************************************************)
MaxInvalid == 2      \* invalid answers given to input() in one run
MaxLines == 2        \* lines of an ignore file drawn for parse_gitignore
MaxNameLen == 3      \* characters of a name drawn for get_language_identifier
MaxPatLen == 2       \* characters of a generated glob pattern
MaxTocLen == 2       \* characters of a name drawn for generate_toc
MaxTocFiles == 2     \* names in a list drawn for generate_toc

None == "None"

\* an optional list argument: Python's None, or a list
NoList == [none |-> TRUE, list |-> <<>>]
SomeList(l) == [none |-> FALSE, list |-> l]

(***************************************************************************)
(* str methods                                                             *)
(***************************************************************************)
Whitespace == {" ", "\t", "\n", "\r", "\f"}

UpperCase == <<"A","B","C","D","E","F","G","H","I","J","K","L","M",
               "N","O","P","Q","R","S","T","U","V","W","X","Y","Z">>

LowerCase == <<"a","b","c","d","e","f","g","h","i","j","k","l","m",
               "n","o","p","q","r","s","t","u","v","w","x","y","z">>

lower_char(c) ==
    IF \E i \in 1..26 : UpperCase[i] = c
    THEN LowerCase[CHOOSE i \in 1..26 : UpperCase[i] = c]
    ELSE c

\* str.lower()
lower(s) == [i \in 1..Len(s) |-> lower_char(s[i])]

\* str.strip(): the longest slice that neither starts nor ends with whitespace
strip(s) ==
    LET keep == {i \in 1..Len(s) : s[i] \notin Whitespace}
    IN  IF keep = {} THEN <<>>
        ELSE LET lo == CHOOSE i \in keep : \A j \in keep : i <= j
                 hi == CHOOSE i \in keep : \A j \in keep : j <= i
             IN  SubSeq(s, lo, hi)

\* str.startswith(c) for a one-character prefix
startswith(s, c) == Len(s) >= 1 /\ s[1] = c

RECURSIVE replace(_, _, _)
\* str.replace(old, new) for a one-character old and any new
replace(s, old, new) ==
    IF s = <<>> THEN <<>>
    ELSE (IF s[1] = old THEN new ELSE <<s[1]>>) \o replace(Tail(s), old, new)

RECURSIVE split(_, _)
\* str.split(sep) for a one-character sep: always at least one piece
split(s, sep) ==
    IF \A i \in 1..Len(s) : s[i] # sep THEN <<s>>
    ELSE LET k == CHOOSE i \in 1..Len(s) :
                      s[i] = sep /\ \A j \in 1..(i - 1) : s[j] # sep
         IN  <<SubSeq(s, 1, k - 1)>> \o split(SubSeq(s, k + 1, Len(s)), sep)

RECURSIVE join_with(_, _)
\* sep.join(parts)
join_with(parts, sep) ==
    IF parts = <<>> THEN <<>>
    ELSE IF Len(parts) = 1 THEN parts[1]
    ELSE parts[1] \o sep \o join_with(Tail(parts), sep)

Last(s) == s[Len(s)]

(***************************************************************************)
(* os.path, for POSIX paths, with the process in the directory cwd         *)
(***************************************************************************)
cwd == <<"/", "w">>

RECURSIVE normparts(_, _)
\* the components of a path with "" and "." dropped and ".." resolved
normparts(parts, acc) ==
    IF parts = <<>> THEN acc
    ELSE LET p == parts[1]
         IN  IF p = <<>> \/ p = <<".">> THEN normparts(Tail(parts), acc)
             ELSE IF p = <<".", ".">>
                  THEN normparts(Tail(parts),
                                 IF acc = <<>> THEN acc
                                 ELSE SubSeq(acc, 1, Len(acc) - 1))
                  ELSE normparts(Tail(parts), Append(acc, p))

\* os.path.join(a, b)
path_join(a, b) ==
    IF startswith(b, "/") THEN b
    ELSE IF a = <<>> \/ Last(a) = "/" THEN a \o b
    ELSE a \o <<"/">> \o b

\* the components of os.path.abspath(p)
absparts(p) ==
    normparts(split(IF startswith(p, "/") THEN p ELSE path_join(cwd, p), "/"),
              <<>>)

\* os.path.abspath(p)
abspath(p) == <<"/">> \o join_with(absparts(p), <<"/">>)

\* os.path.basename(p): what follows the last slash
basename(p) == Last(split(p, "/"))

\* os.path.relpath(p, start)
relpath(p, start) ==
    LET pp == absparts(p)
        sp == absparts(start)
        common == CHOOSE n \in 0..Len(sp) :
                      /\ n <= Len(pp)
                      /\ \A i \in 1..n : pp[i] = sp[i]
                      /\ (n < Len(sp) /\ n < Len(pp) => pp[n + 1] # sp[n + 1])
        ups == [i \in 1..(Len(sp) - common) |-> <<".", ".">>]
        rest == ups \o SubSeq(pp, common + 1, Len(pp))
    IN  IF rest = <<>> THEN <<".">> ELSE join_with(rest, <<"/">>)

(***************************************************************************)
(* fnmatch.fnmatch(name, pat): *, ?, [seq], [!seq]; an unclosed [ is a     *)
(* literal.  On POSIX normcase changes nothing.                            *)
(***************************************************************************)
Ordered == <<" ", "!", "#", "*", "-", ".", "/", "2", "?">> \o UpperCase
           \o <<"[", "]", "_">> \o LowerCase

ord(c) == IF \E i \in 1..Len(Ordered) : Ordered[i] = c
          THEN CHOOSE i \in 1..Len(Ordered) : Ordered[i] = c
          ELSE 0

\* the index of the ] closing the class opened just before position i, or 0
class_end(pat, i) ==
    LET n == Len(pat)
        j1 == IF i <= n /\ pat[i] = "!" THEN i + 1 ELSE i
        j2 == IF j1 <= n /\ pat[j1] = "]" THEN j1 + 1 ELSE j1
        closers == {j \in j2..n : pat[j] = "]"}
    IN  IF closers = {} THEN 0
        ELSE CHOOSE j \in closers : \A k \in closers : j <= k

RECURSIVE class_has(_, _)
\* whether character c is in the class body stuff (ranges x-y included)
class_has(stuff, c) ==
    IF stuff = <<>> THEN FALSE
    ELSE IF Len(stuff) >= 3 /\ stuff[2] = "-"
         THEN (ord(stuff[1]) <= ord(c) /\ ord(c) <= ord(stuff[3]))
              \/ class_has(SubSeq(stuff, 4, Len(stuff)), c)
         ELSE stuff[1] = c \/ class_has(Tail(stuff), c)

RECURSIVE fnmatch(_, _)
fnmatch(name, pat) ==
    IF pat = <<>> THEN name = <<>>
    ELSE IF pat[1] = "*"
         THEN fnmatch(name, Tail(pat))
              \/ (name # <<>> /\ fnmatch(Tail(name), pat))
    ELSE IF pat[1] = "?"
         THEN name # <<>> /\ fnmatch(Tail(name), Tail(pat))
    ELSE IF pat[1] = "[" /\ class_end(pat, 2) # 0
         THEN LET j == class_end(pat, 2)
                  neg == pat[2] = "!"
                  stuff == SubSeq(pat, IF neg THEN 3 ELSE 2, j - 1)
              IN  /\ name # <<>>
                  /\ (class_has(stuff, name[1]) <=> ~neg)
                  /\ fnmatch(Tail(name), SubSeq(pat, j + 1, Len(pat)))
    ELSE name # <<>> /\ name[1] = pat[1] /\ fnmatch(Tail(name), Tail(pat))


(***************************************************************************)
(* Sequence helpers                                                        *)
(***************************************************************************)
RECURSIVE concat(_)
concat(seqs) == IF seqs = <<>> THEN <<>> ELSE seqs[1] \o concat(Tail(seqs))

Range(s) == {s[i] : i \in 1..Len(s)}

RECURSIVE dedupe(_, _)
\* s with only the first occurrence of each element kept
dedupe(s, seen) ==
    IF s = <<>> THEN <<>>
    ELSE IF s[1] \in seen THEN dedupe(Tail(s), seen)
    ELSE <<s[1]>> \o dedupe(Tail(s), seen \cup {s[1]})

IsPrefix(a, b) == Len(a) <= Len(b) /\ \A i \in 1..Len(a) : a[i] = b[i]

(***************************************************************************)
(* The file system: tree lists the regular files below cwd, each by its    *)
(* path relative to cwd, in the order the directory listings return them.  *)
(***************************************************************************)
isfile(p) == \E i \in 1..Len(tree) : absparts(tree[i]) = absparts(p)

isdir(p) ==
    \E i \in 1..Len(tree) :
        /\ IsPrefix(absparts(p), absparts(tree[i]))
        /\ Len(absparts(p)) < Len(absparts(tree[i]))

exists(p) == isfile(p) \/ isdir(p)

\* os.listdir(d): the names of the entries of d, files and directories alike
listdir(d) ==
    LET dp == absparts(d)
        below == SelectSeq(tree, LAMBDA e : /\ IsPrefix(dp, absparts(e))
                                            /\ Len(dp) < Len(absparts(e)))
    IN  dedupe([i \in 1..Len(below) |-> absparts(below[i])[Len(dp) + 1]], {})

RECURSIVE walk(_)
\* os.walk(top), top-down: <<[root, dirs, files]>> for top, then for each of
\* its directories.  Every name that is not a directory is in files.
walk(top) ==
    LET names == listdir(top)
        dirs == SelectSeq(names, LAMBDA n : isdir(path_join(top, n)))
        nondirs == SelectSeq(names, LAMBDA n : ~isdir(path_join(top, n)))
    IN  <<[root |-> top, dirs |-> dirs, files |-> nondirs]>>
        \o concat([i \in 1..Len(dirs) |-> walk(path_join(top, dirs[i]))])

(***************************************************************************)
(* parse_gitignore, lines 26-44                                            *)
(***************************************************************************)
dot_gitignore == <<".", "g", "i", "t", "i", "g", "n", "o", "r", "e">>

RECURSIVE parse_lines_keep_comments(_)
parse_lines_keep_comments(lines) ==
    IF lines = <<>> THEN <<>>
    ELSE LET line == strip(lines[1])
         IN  (IF line # <<>> THEN <<line>> ELSE <<>>)
             \o parse_lines_keep_comments(Tail(lines))

RECURSIVE parse_lines(_)
\* lines 40-43: the loop over the lines of the open file
parse_lines(lines) ==
    IF lines = <<>> THEN <<>>
    ELSE LET line == strip(lines[1])
         IN  (IF line # <<>> /\ ~startswith(line, "#") THEN <<line>> ELSE <<>>)
             \o parse_lines(Tail(lines))

parse_gitignore(directory) ==
    LET gitignore_path == path_join(directory, dot_gitignore)
    IN  IF exists(gitignore_path) THEN parse_lines(gitignore_text) ELSE <<>>

(***************************************************************************)
(* collect_files, lines 47-87                                              *)
(***************************************************************************)
is_ignored_basename_only(file_path, directory, ignore_patterns) ==
    IF ignore_patterns.none \/ ignore_patterns.list = <<>> THEN FALSE
    ELSE LET rel_path == relpath(file_path, directory)
         IN  \E i \in 1..Len(ignore_patterns.list) :
                 fnmatch(basename(rel_path), ignore_patterns.list[i])

\* lines 59-75; directory and ignore_patterns are the closure's variables
is_ignored(file_path, directory, ignore_patterns) ==
    IF ignore_patterns.none \/ ignore_patterns.list = <<>> THEN FALSE
    ELSE LET rel_path == relpath(file_path, directory)
         IN  \E i \in 1..Len(ignore_patterns.list) :
                 \/ fnmatch(rel_path, ignore_patterns.list[i])
                 \/ fnmatch(basename(rel_path), ignore_patterns.list[i])

\* the generator's yields, in order
collect_files(directory, recursive, ignore_patterns) ==
    IF recursive
    THEN LET w == walk(directory)
             paths == concat([i \in 1..Len(w) |->
                         [j \in 1..Len(w[i].files) |->
                             path_join(w[i].root, w[i].files[j])]])
         IN  SelectSeq(paths,
                       LAMBDA p : ~is_ignored(p, directory, ignore_patterns))
    ELSE LET names == listdir(directory)
             paths == [i \in 1..Len(names) |-> path_join(directory, names[i])]
         IN  SelectSeq(paths,
                       LAMBDA p : /\ isfile(p)
                                  /\ ~is_ignored(p, directory, ignore_patterns))

(***************************************************************************)
(* get_user_confirmation, lines 106-123: one pass of the loop on the text  *)
(* input() returned: "True", "False", or "again" after the Invalid input   *)
(* message                                                                 *)
(***************************************************************************)
confirmation_default_no(raw) ==
    LET r == strip(lower(raw))
    IN  IF r \in {<<"y">>, <<"y", "e", "s">>} THEN "True" ELSE "False"

confirmation(raw) ==
    LET r == strip(lower(raw))
    IN  IF r \in {<<"y">>, <<"y", "e", "s">>} THEN "True"
        ELSE IF r \in {<<"n">>, <<"n", "o">>} THEN "False"
        ELSE "again"

(***************************************************************************)
(* generate_toc, lines 126-142: the returned string                        *)
(***************************************************************************)
toc_header == <<"#", " ", "T", "a", "b", "l", "e", " ", "o", "f", " ",
                "C", "o", "n", "t", "e", "n", "t", "s", "\n", "\n">>

toc_link_strip_spaces(file) == replace(replace(file, " ", <<>>), ".", <<>>)

\* line 139
toc_link(file) == replace(replace(file, " ", <<"-">>), ".", <<>>)

\* line 140
toc_entry(file) ==
    <<"-", " ", "[">> \o file \o <<"]", "(", "#">> \o toc_link(file)
    \o <<")", "\n">>

generate_toc(fs) ==
    toc_header \o concat([i \in 1..Len(fs) |-> toc_entry(fs[i])]) \o <<"\n">>

(***************************************************************************)
(* get_language_identifier, lines 145-174                                  *)
(***************************************************************************)
language_map ==
    << <<(<<"p", "y">>), "python">>,
       <<(<<"j", "s">>), "javascript">>,
       <<(<<"h", "t", "m", "l">>), "html">>,
       <<(<<"c", "s", "s">>), "css">>,
       <<(<<"j", "a", "v", "a">>), "java">>,
       <<(<<"c">>), "c">>,
       <<(<<"c", "p", "p">>), "cpp">>,
       <<(<<"m", "d">>), "markdown">>,
       <<(<<"t", "x", "t">>), "text">>,
       <<(<<"j", "s", "o", "n">>), "json">>,
       <<(<<"x", "m", "l">>), "xml">>,
       <<(<<"s", "q", "l">>), "sql">>,
       <<(<<"s", "h">>), "bash">>,
       <<(<<"y", "a", "m", "l">>), "yaml">>,
       <<(<<"y", "m", "l">>), "yaml">> >>

\* dict.get(key, default)
map_get(m, key, default) ==
    IF \E i \in 1..Len(m) : m[i][1] = key
    THEN m[CHOOSE i \in 1..Len(m) : m[i][1] = key][2]
    ELSE default

get_language_identifier_case_sensitive(filename) ==
    map_get(language_map, Last(split(filename, ".")), "")

get_language_identifier(filename) ==
    LET extension == lower(Last(split(filename, ".")))
    IN  map_get(language_map, extension, "")


(***************************************************************************)
(* Inputs                                                                  *)
(***************************************************************************)
Reverse(s) == [i \in 1..Len(s) |-> s[Len(s) + 1 - i]]

\* the listings of the subsets of base, in base order
Listings(base) ==
    {SelectSeq(base, LAMBDA e : e \in S) : S \in SUBSET Range(base)}

\* the same, and in reverse order
ListingsBothWays(base) ==
    Listings(base) \cup {Reverse(l) : l \in Listings(base)}

\* the strings over alphabet of length lo..hi
Strings(alphabet, lo, hi) == UNION {[1..n -> alphabet] : n \in lo..hi}

file__ == <<"c", "o", "d", "e", "2", "m", "d", ".", "p", "y">>
f_a == <<"a", ".", "p", "y">>
f_b == <<"s", "/", "b", ".", "l", "o", "g">>
f_out == <<"o", ".", "m", "d">>
f_dot_out == <<".", "/", "o", ".", "m", "d">>
star_log == <<"*", ".", "l", "o", "g">>

RunFiles == <<f_b, f_out, dot_gitignore, f_a, file__>>

RunGitignores ==
    { << <<"#", " ", "l", "o", "g", "s", "\n">>, star_log \o <<"\n">> >>,
      << <<"*", ".", "m", "d", "\n">>, <<"c", "o", "d", "e", "*">> >> }

Responses ==
    { <<"y">>, <<" ", "Y", "E", "S", " ">>, <<"N">>, <<"n", "o", "\t">>,
      <<"o", "k">>, <<>> }

NoBadFile == [rel |-> <<>>, kind |-> "content"]

ReadFailures == {"IOError", "UnicodeDecodeError"}

(***************************************************************************)
(* combine_files_to_markdown, lines 183-233                                *)
(***************************************************************************)
script_name == basename(file__)

exclude_by_string(fs, output_file) ==
    SelectSeq(fs, LAMBDA f : basename(f) # script_name /\ f # output_file)

\* line 201
exclude_self_and_output(fs, output_file) ==
    SelectSeq(fs, LAMBDA f : /\ basename(f) # script_name
                             /\ abspath(f) # abspath(output_file))

\* lines 16-23 on the file system of the model: the content, or the failure
read_file_content(file_path) ==
    IF bad_file # NoBadFile /\ absparts(bad_file.rel) = absparts(file_path)
    THEN bad_file.kind
    ELSE "content"

selection_complete_early == TRUE

\* the for loop of lines 204-206 has run out of candidates
selection_complete == idx > Len(files)

InitialDisk == IF isfile(args.output_file) THEN "old" ELSE "absent"

RunInit ==
    /\ tree \in Listings(RunFiles)
    /\ gitignore_text \in
           IF dot_gitignore \in Range(tree) THEN RunGitignores ELSE {<<>>}
    /\ args \in [output_file : {f_out, f_dot_out}, include_all : BOOLEAN,
                 directory : {<<".">>}, recursive : BOOLEAN,
                 ignore_gitignore : BOOLEAN]
    /\ bad_file \in {NoBadFile}
           \cup [rel : Range(tree) \cap {f_a, f_b}, kind : ReadFailures]
    /\ pc = "start"
    /\ files = <<>>
    /\ files_to_include = <<>>
    /\ idx = 1
    /\ prompts = 0
    /\ prompted = {}
    /\ response = None
    /\ out_disk = InitialDisk
    /\ written = <<>>
    /\ widx = 1
    /\ log = <<>>
    /\ arg = None
    /\ ret = None

envVars == <<tree, gitignore_text, args, bad_file, arg, ret>>

\* line 232: the handler logs and re-raises
Raise ==
    /\ pc' = "raised"
    /\ log' = Append(log, [level |-> "ERROR",
                           msg |-> "An error occurred while combining files"])

\* lines 198-203
Collect ==
    /\ pc = "start"
    /\ LET ignore_patterns == IF args.ignore_gitignore THEN NoList
                              ELSE SomeList(parse_gitignore(args.directory))
       IN  files' = exclude_self_and_output(
                        collect_files(args.directory, args.recursive,
                                      ignore_patterns),
                        args.output_file)
    /\ files_to_include' = <<>>
    /\ idx' = 1
    /\ pc' = "select"
    /\ UNCHANGED <<prompts, prompted, response, out_disk, written, widx, log>>
    /\ UNCHANGED envVars

\* the directory cannot be listed: os.listdir or open raises in lines 198-201
EnumerateFails ==
    /\ pc = "start"
    /\ Raise
    /\ UNCHANGED <<files, files_to_include, idx, prompts, prompted, response,
                   out_disk, written, widx>>
    /\ UNCHANGED envVars

\* lines 204-206 with include_all: the or never calls get_user_confirmation
AcceptAll ==
    /\ pc = "select" /\ idx <= Len(files)
    /\ args.include_all
    /\ files_to_include' = Append(files_to_include, files[idx])
    /\ idx' = idx + 1
    /\ UNCHANGED <<pc, files, prompts, prompted, response, out_disk, written,
                   widx, log>>
    /\ UNCHANGED envVars

\* lines 204-206 without include_all: one pass of the loop of lines 116-123
Confirm ==
    /\ pc = "select" /\ idx <= Len(files)
    /\ ~args.include_all
    /\ \E raw \in Responses :
          /\ confirmation(raw) = "again" => prompts - (idx - 1) < MaxInvalid
          /\ response' = raw
          /\ prompts' = prompts + 1
          /\ prompted' = prompted \cup {files[idx]}
          /\ files_to_include' =
                 IF confirmation(raw) = "True"
                 THEN Append(files_to_include, files[idx])
                 ELSE files_to_include
          /\ idx' = IF confirmation(raw) = "again" THEN idx ELSE idx + 1
    /\ UNCHANGED <<pc, files, out_disk, written, widx, log>>
    /\ UNCHANGED envVars

\* input() raises EOFError: standard input is closed
InputFails ==
    /\ pc = "select" /\ idx <= Len(files)
    /\ ~args.include_all
    /\ prompts' = prompts + 1
    /\ prompted' = prompted \cup {files[idx]}
    /\ Raise
    /\ UNCHANGED <<files, files_to_include, idx, response, out_disk, written,
                   widx>>
    /\ UNCHANGED envVars

\* lines 208-216: open for writing, the metadata block, the table of contents
OpenOutput ==
    /\ pc = "select" /\ selection_complete
    /\ out_disk' = "new"
    /\ written' = <<[kind |-> "metadata"],
                    [kind |-> "toc", text |-> generate_toc(files_to_include)]>>
    /\ widx' = 1
    /\ pc' = "write"
    /\ UNCHANGED <<files, files_to_include, idx, prompts, prompted, response,
                   log>>
    /\ UNCHANGED envVars

\* line 208 raises: the output path cannot be opened for writing
OpenFails ==
    /\ pc = "select" /\ selection_complete
    /\ Raise
    /\ UNCHANGED <<files, files_to_include, idx, prompts, prompted, response,
                   out_disk, written, widx>>
    /\ UNCHANGED envVars

\* lines 219-228: one pass of the loop over files_to_include
WriteSection ==
    /\ pc = "write" /\ widx <= Len(files_to_include)
    /\ LET filename == files_to_include[widx]
           content == read_file_content(filename)
       IN  \/ /\ content = "content"
              /\ written' = Append(written,
                     [kind |-> "section", heading |-> filename,
                      lang |-> get_language_identifier(filename),
                      content |-> filename])
              /\ widx' = widx + 1
              /\ UNCHANGED <<pc, log>>
           \/ /\ content = "IOError"
              \* lines 21-23, then lines 227-228
              /\ log' = log \o <<[level |-> "ERROR", msg |-> "Error reading file",
                                  file |-> filename],
                                 [level |-> "ERROR", msg |-> "Skipping file",
                                  file |-> filename]>>
              /\ widx' = widx + 1
              /\ UNCHANGED <<pc, written>>
           \/ /\ content = "UnicodeDecodeError"
              \* not an IOError: neither line 21 nor line 227 catches it
              /\ Raise
              /\ UNCHANGED <<written, widx>>
    /\ UNCHANGED <<files, files_to_include, idx, prompts, prompted, response,
                   out_disk>>
    /\ UNCHANGED envVars

\* line 230
Finish ==
    /\ pc = "write" /\ widx > Len(files_to_include)
    /\ log' = Append(log, [level |-> "INFO", msg |-> "Successfully combined",
                           combined |-> Len(files_to_include),
                           considered |-> Len(files)])
    /\ pc' = "done"
    /\ UNCHANGED <<files, files_to_include, idx, prompts, prompted, response,
                   out_disk, written, widx>>
    /\ UNCHANGED envVars

Next ==
    \/ Collect
    \/ EnumerateFails
    \/ AcceptAll
    \/ Confirm
    \/ InputFails
    \/ OpenOutput
    \/ OpenFails
    \/ WriteSection
    \/ Finish

Spec == RunInit /\ [][Next]_vars


(***************************************************************************)
(* Calls of the functions on inputs drawn from bounded sets                *)
(***************************************************************************)
Idle ==
    /\ args = None
    /\ bad_file = NoBadFile
    /\ files = <<>>
    /\ files_to_include = <<>>
    /\ idx = 1
    /\ prompts = 0
    /\ prompted = {}
    /\ response = None
    /\ out_disk = "absent"
    /\ written = <<>>
    /\ widx = 1
    /\ log = <<>>

Return(value) ==
    /\ pc = "call"
    /\ ret' = value
    /\ pc' = "returned"
    /\ UNCHANGED <<tree, gitignore_text, args, bad_file, arg>>
    /\ UNCHANGED runVars

\* ---- parse_gitignore
RawLines ==
    { star_log \o <<"\n">>,
      <<" ", " ", "a", " ", "b", " ", "\n">>,
      <<"#", " ", "c", "\n">>,
      <<" ", "\t", "#", "c", "\n">>,
      <<"\n">>,
      <<" ", "\r", "\n">>,
      <<"a", "#", "b", "\n">>,
      <<"!", "x">> }

ParseInit ==
    /\ tree \in {<<>>, <<f_a>>, <<dot_gitignore>>, <<f_a, dot_gitignore>>}
    /\ gitignore_text \in
           IF dot_gitignore \in Range(tree)
           THEN Strings(RawLines, 0, MaxLines) ELSE {<<>>}
    /\ arg = <<".">>
    /\ ret = None
    /\ pc = "call"
    /\ Idle

CallParseGitignore == Return(parse_gitignore(arg))

SpecParse == ParseInit /\ [][CallParseGitignore]_vars

\* ---- collect_files
t_test1 == <<"t", "e", "s", "t", "1", ".", "p", "y">>
t_ignored == <<"i", "g", "n", "o", "r", "e", "d", ".", "l", "o", "g">>
t_sub == <<"s", "/", "t", ".", "l", "o", "g">>
t_deep == <<"s", "/", "d", "/", "g">>

CollectFiles == <<t_sub, dot_gitignore, t_test1, t_deep, t_ignored>>

PatternChars == {"*", "?", "/", "s", "g"}

CuratedPatterns ==
    { star_log, <<"s", "/", "*">>, <<"[", "!", ".", "]", "*">>,
      <<"*", ".", "p", "[", "x", "y", "]">>,
      <<"t", "e", "s", "t", "?", ".", "p", "y">>,
      <<"[", "a", "-", "j", "]", "*">>, <<"s", "/", "t", "*">>, <<"*", "[">> }

PatternLists ==
    {NoList, SomeList(<<>>)}
    \cup {SomeList(<<p>>) :
              p \in Strings(PatternChars, 1, MaxPatLen) \cup CuratedPatterns}
    \cup {SomeList(<<p, q>>) :
              p \in CuratedPatterns, q \in {star_log, <<"g">>}}

CollectInit ==
    /\ tree \in ListingsBothWays(CollectFiles)
    /\ gitignore_text =
           IF dot_gitignore \in Range(tree) THEN <<star_log>> ELSE <<>>
    /\ arg \in [directory : {<<".">>, <<"s">>}, recursive : BOOLEAN,
                ignore_patterns : PatternLists]
    /\ ret = None
    /\ pc = "call"
    /\ Idle

CallCollectFiles ==
    /\ isdir(arg.directory)
    /\ Return(collect_files(arg.directory, arg.recursive, arg.ignore_patterns))

SpecCollect == CollectInit /\ [][CallCollectFiles]_vars

\* ---- get_language_identifier
LangChars == {"c", "p", "y", "P", "Y", "."}

CuratedNames ==
    { <<"t", "e", "s", "t", ".", "p", "y">>,
      <<"t", "e", "s", "t", ".", "j", "s">>,
      <<"t", "e", "s", "t", ".", "u", "n", "k", "n", "o", "w", "n">>,
      <<"a", ".", "t", "a", "r", ".", "Y", "A", "M", "L">>,
      <<"M", "a", "k", "e", "f", "i", "l", "e">>,
      <<"s", "h">>,
      <<".", "/", "s", "h">>,
      <<".", "/", "d", ".", "c", "/", "R", "E", "A", "D", "M", "E">> }

LangInit ==
    /\ arg \in Strings(LangChars, 0, MaxNameLen) \cup CuratedNames
    /\ tree = <<>>
    /\ gitignore_text = <<>>
    /\ ret = None
    /\ pc = "call"
    /\ Idle

CallGetLanguageIdentifier == Return(get_language_identifier(arg))

SpecLang == LangInit /\ [][CallGetLanguageIdentifier]_vars

\* ---- generate_toc
TocChars == {"a", " ", "."}

TocInit ==
    /\ arg \in Strings(Strings(TocChars, 1, MaxTocLen), 0, MaxTocFiles)
    /\ tree = <<>>
    /\ gitignore_text = <<>>
    /\ ret = None
    /\ pc = "call"
    /\ Idle

CallGenerateToc == Return(generate_toc(arg))

SpecToc == TocInit /\ [][CallGenerateToc]_vars


(***************************************************************************)
(* Properties of the functions                                             *)
(***************************************************************************)
\* the files of tree below directory d, each by its path from d
FilesBelow(d) ==
    LET dp == absparts(d)
        below == {e \in Range(tree) : /\ IsPrefix(dp, absparts(e))
                                      /\ Len(dp) < Len(absparts(e))}
    IN  {SubSeq(absparts(e), Len(dp) + 1, Len(absparts(e))) : e \in below}

\* what a scan of d enumerates: direct children, or the whole subtree
Enumerated(d, recursive) ==
    {[path |-> path_join(d, join_with(parts, <<"/">>)),
      rel |-> join_with(parts, <<"/">>),
      name |-> Last(parts)] :
        parts \in {q \in FilesBelow(d) : recursive \/ Len(q) = 1}}

GlobHit(x, pats) ==
    \E i \in 1..Len(pats) : fnmatch(x.rel, pats[i]) \/ fnmatch(x.name, pats[i])

C3_DefaultCallHonoursGitignore ==
    (/\ pc = "returned"
     /\ arg.ignore_patterns.none
     /\ ~arg.recursive
     /\ isfile(path_join(arg.directory, dot_gitignore)))
    => \A x \in Enumerated(arg.directory, FALSE) :
           x.path \in Range(ret) <=> ~GlobHit(x, parse_gitignore(arg.directory))

\* C4: parse_gitignore returns, in file order, the stripped form of exactly
\* the lines that are non-empty after stripping and do not then begin with
\* '#'; without an ignore file it returns the empty list.
C4_ParseKeepsPatternLinesInOrder ==
    pc = "returned" =>
        IF dot_gitignore \in Range(tree)
        THEN LET stripped == [i \in 1..Len(gitignore_text) |->
                                 strip(gitignore_text[i])]
             IN  ret = SelectSeq(stripped,
                                 LAMBDA l : l # <<>> /\ l[1] # "#")
        ELSE ret = <<>>

\* an ignore file with a comment line and a pattern line, parsed
C4_Witness ==
    /\ pc = "returned"
    /\ dot_gitignore \in Range(tree)
    /\ Len(gitignore_text) = 2
    /\ Len(ret) = 1
    /\ \E i \in 1..2 : LET l == strip(gitignore_text[i])
                       IN  l # <<>> /\ l[1] = "#"
    /\ ret[1] \notin Range(gitignore_text)

HasDot(name) == \E i \in 1..Len(name) : name[i] = "."

\* the text after the last '.', lower-cased
Extension(name) ==
    LET k == CHOOSE i \in 1..Len(name) :
                 name[i] = "." /\ \A j \in (i + 1)..Len(name) : name[j] # "."
    IN  lower(SubSeq(name, k + 1, Len(name)))

InTable(ext) == \E i \in 1..Len(language_map) : language_map[i][1] = ext

\* C5: get_language_identifier returns the mapped tag when the extension is
\* in the table, and the empty string when the extension is not in the table
\* and when the filename holds no '.' at all, such as 'c', 'sh' or 'py'.
C5_NoExtensionYieldsEmptyTag ==
    pc = "returned" =>
        IF HasDot(arg)
        THEN IF InTable(Extension(arg))
             THEN ret = map_get(language_map, Extension(arg), "")
             ELSE ret = ""
        ELSE ret = ""

\* the lines of a table of contents
TocLines == split(ret, "\n")

TocLine(text, anchor) ==
    <<"-", " ", "[">> \o text \o <<"]", "(", "#">> \o anchor \o <<")">>

TocShape ==
    /\ Len(TocLines) = Len(arg) + 4
    /\ TocLines[1] \o <<"\n", "\n">> = toc_header
    /\ TocLines[2] = <<>>
    /\ TocLines[Len(arg) + 3] = <<>>
    /\ TocLines[Len(arg) + 4] = <<>>

\* C6 as stated: one link line per file, in input order, the link text the
\* filename and the anchor the filename with every space and every period
\* removed.
C6_AnchorStripsSpacesAndPeriods ==
    pc = "returned" =>
        /\ TocShape
        /\ \A i \in 1..Len(arg) :
               TocLines[i + 2] =
                   TocLine(arg[i],
                           SelectSeq(arg[i], LAMBDA c : c \notin {" ", "."}))

\* C6 amended: one link line per file, in input order, the link text the
\* filename and the anchor the filename with every period removed and every
\* space replaced by a hyphen.
C6_AnchorHyphenatesSpaces ==
    pc = "returned" =>
        /\ TocShape
        /\ \A i \in 1..Len(arg) :
               LET kept == SelectSeq(arg[i], LAMBDA c : c # ".")
               IN  TocLines[i + 2] =
                       TocLine(arg[i],
                               [k \in 1..Len(kept) |->
                                   IF kept[k] = " " THEN "-" ELSE kept[k]])

\* a table of contents of two files, one with a space and one with a period
C6_Witness ==
    /\ pc = "returned"
    /\ Len(arg) = 2
    /\ \E i \in 1..2 : " " \in Range(arg[i])
    /\ \E i \in 1..2 : "." \in Range(arg[i])
    /\ arg[1] # arg[2]


(***************************************************************************)
(* Properties of a run of combine_files_to_markdown                        *)
(***************************************************************************)
Sections == SelectSeq(written, LAMBDA w : w.kind = "section")

Headings == [i \in 1..Len(Sections) |-> Sections[i].heading]

\* the path names the output file or the running script
IsSelfOrOutput(f) ==
    \/ abspath(f) = abspath(args.output_file)
    \/ abspath(f) = abspath(file__)

\* the table of contents written so far has a link whose text is f
ListedInToc(f) ==
    /\ Len(written) >= 2
    /\ \E line \in Range(split(written[2].text, "\n")) :
           IsPrefix(<<"-", " ", "[">> \o f \o <<"]">>, line)

\* C1: whatever the directory holds, whatever the patterns, the mode and the
\* recursion, the output file and the script's own file are never candidates:
\* never prompted for, never in the table of contents, never a section.
C1_SelfAndOutputNeverCandidates ==
    /\ \A f \in Range(files) \cup prompted \cup Range(files_to_include)
                \cup Range(Headings) : ~IsSelfOrOutput(f)
    /\ \A e \in Range(tree) :
           LET f == path_join(args.directory, e)
           IN  IsSelfOrOutput(f) => ~ListedInToc(f)

\* a finished run over a directory that holds the script and an earlier
\* output, neither matched by a pattern, with a section written
C1_Witness ==
    /\ pc = "done"
    /\ file__ \in Range(tree)
    /\ f_out \in Range(tree)
    /\ args.output_file = f_out
    /\ \A e \in {file__, f_out} :
           ~is_ignored(path_join(args.directory, e), args.directory,
                       SomeList(IF args.ignore_gitignore THEN <<>>
                                ELSE parse_gitignore(args.directory)))
    /\ Len(Sections) >= 1
    /\ Len(files) >= 2

Readable(f) == read_file_content(f) = "content"

\* C7: once the output is open, a selected file whose content cannot be read
\* is logged and skipped, every readable selected file gets its section in
\* selection order, and the run returns without raising, whatever the kind of
\* read failure.
C7_ReadFailureSkipsOnlyThatFile ==
    (out_disk = "new" /\ pc # "write") =>
        /\ pc = "done"
        /\ Headings = SelectSeq(files_to_include, Readable)
        /\ \A f \in Range(files_to_include) :
               ~Readable(f) =>
                   \E i \in 1..Len(log) :
                       /\ log[i].msg = "Skipping file"
                       /\ log[i].file = f

\* C9: in a run that returned, the table of contents lists exactly the files
\* that have a section, in the same order, and the logged count of combined
\* files is the number of sections, also when a file was skipped.
C9_TocSectionsAndCountAgree ==
    pc = "done" =>
        /\ written[2].text = generate_toc(Headings)
        /\ Last(log).combined = Len(Headings)

\* what the user answered, case and surrounding whitespace ignored
Answer(raw) == lower(strip(raw))

Affirmative == {<<"y">>, <<"y", "e", "s">>}

Negative == {<<"n">>, <<"n", "o">>}

C8_Batch ==
    args.include_all =>
        /\ prompts = 0 /\ prompted = {}
        /\ pc = "select" => files_to_include = SubSeq(files, 1, idx - 1)
        /\ pc \in {"write", "done"} => files_to_include = files

C8_Step ==
    /\ (pc = "select" /\ pc' = "select" /\ prompts' = prompts + 1) =>
           /\ prompted' = prompted \cup {files[idx]}
           /\ IF Answer(response') \in Affirmative
              THEN /\ files_to_include' = Append(files_to_include, files[idx])
                   /\ idx' = idx + 1
              ELSE IF Answer(response') \in Negative
              THEN /\ files_to_include' = files_to_include
                   /\ idx' = idx + 1
              ELSE /\ files_to_include' = files_to_include
                   /\ idx' = idx
    /\ (pc = "select" /\ ~args.include_all
        /\ (idx' # idx \/ files_to_include' # files_to_include)) =>
           prompts' = prompts + 1
    /\ (pc = "select" /\ pc' = "write") => idx > Len(files)

\* C8: in batch mode every candidate is accepted and nothing is prompted; in
\* interactive mode each candidate is decided by a prompt, an answer other
\* than y, yes, n, no (case and surrounding whitespace ignored) decides
\* nothing and leaves the same candidate to be prompted again, the first valid
\* answer accepts iff it is affirmative, and selection does not end before
\* every candidate has had a valid answer.
C8_SelectorPromptsUntilValid == [](C8_Batch) /\ [][C8_Step]_vars

\* two invalid answers for the first candidate, then an upper-case yes with
\* surrounding blanks accepted it
C8_Witness ==
    /\ pc = "select"
    /\ ~args.include_all
    /\ idx = 2
    /\ prompts = 3
    /\ files_to_include = <<files[1]>>
    /\ response = <<" ", "Y", "E", "S", " ">>

\* C10: the output path is opened, and so truncated, only once collection,
\* the exclusion of the script and the output, and the decision for every
\* candidate are over; until then the path on disk is as it was before the
\* run, also when enumeration or a prompt fails; and no prompt follows the
\* opening.
C10_OutputOpenedAfterSelection ==
    /\ [](out_disk = "new" => pc \notin {"start", "select"} /\ idx > Len(files))
    /\ [](out_disk # "new" => out_disk = InitialDisk)
    /\ [][out_disk = "new" => prompts' = prompts /\ prompted' = prompted]_vars
    /\ [][out_disk' # out_disk => pc = "select" /\ idx > Len(files)]_vars

\* a run that failed at the second prompt, the earlier output still in place
C10_Witness ==
    /\ pc = "raised"
    /\ out_disk = "old"
    /\ prompts = 2
    /\ Len(files) >= 2

=============================================================================
